---- MODULE Spec2Model ----
(***************************************************************************)
(* Model of the gqlgen/GORM todo CRUD resolvers (graph/schema.resolvers.go *)
(* as listed in readme.md) over the two tables created by                  *)
(* mysql.Connection().  The storage calls are jinzhu/gorm (v1) calls; each *)
(* is modelled by the SQL statement it issues:                             *)
(*   - First(&v) adds "WHERE id = v.ID" only when v.ID is not the zero     *)
(*     value, orders by primary key and takes one row;                     *)
(*   - Model(&Todo{}).Update(&v) sets only the non-blank fields of v and   *)
(*     is keyed by the id among them (no WHERE clause when there is none); *)
(*   - Delete(&v) is keyed by v.ID when it is non-zero and has no WHERE    *)
(*     clause otherwise;                                                   *)
(*   - Create(&v) inserts every column but a blank primary key, which the  *)
(*     table's AUTO_INCREMENT assigns;                                     *)
(*   - Preload("User") fills the User field from the users table.          *)
(* Every resolver discards the *gorm.DB result and returns a nil error.    *)
(***************************************************************************)
EXTENDS Integers, Sequences, FiniteSets, TLC

\* ---------------------------------------------------------------- bounds
MaxTodos == 2
MaxUsers == 1

Texts == {"", "a", "b"}
Names == {"Jamie"}
IdInputs == (0 - 1)..(MaxTodos + 1)
UserIdInputs == 0..MaxUsers
Requests == {1, 2}

\* ---------------------------------------------------------------- entities
ZeroUser == [ID |-> 0, Name |-> ""]
ZeroTodo == [ID |-> 0, Text |-> "", Done |-> FALSE, UserID |-> 0, User |-> ZeroUser]

\* a row of table todos: the columns of models.Todo (User is a relation, not a column)
TodoRow(todo) == [ID |-> todo.ID, Text |-> todo.Text, Done |-> todo.Done, UserID |-> todo.UserID]

NewTodo(text, userId) == [Text |-> text, UserID |-> userId]
EditTodo(id, text) == [ID |-> id, Text |-> text]
NewUser(name) == [Name |-> name]
FetchTodo(id) == [ID |-> id]

\* todoTable, userTable: the rows of tables todos and users; todoAutoInc,
\* userAutoInc: their AUTO_INCREMENT counters; last: the latest resolver call
\* with its input and its return values; req: the requests in flight;
\* everTodoIds: history of the ids a todos row was ever stored under
VARIABLES todoTable, userTable, todoAutoInc, userAutoInc, last, req, everTodoIds

vars == <<todoTable, userTable, todoAutoInc, userAutoInc, last, req, everTodoIds>>
store == <<todoTable, userTable, todoAutoInc, userAutoInc>>

\* ---------------------------------------------------------------- gorm
RECURSIVE SortById(_)
SortById(rows) ==
  IF rows = {} THEN <<>>
  ELSE LET r == CHOOSE x \in rows : \A y \in rows : x.ID <= y.ID
       IN <<r>> \o SortById(rows \ {r})

\* rows selected by the primary-key condition gorm derives from the value
KeyedRows(tbl, id) == IF id # 0 THEN {r \in tbl : r.ID = id} ELSE tbl

\* First that hands back a cleared value when no row matches
First_ZeroOnMiss(tbl, todo) ==
  LET hit == KeyedRows(tbl, todo.ID)
  IN IF hit = {} THEN [todo |-> ZeroTodo, err |-> "RecordNotFound"]
     ELSE LET r == SortById(hit)[1]
          IN [todo |-> [todo EXCEPT !.ID = r.ID, !.Text = r.Text,
                                    !.Done = r.Done, !.UserID = r.UserID],
              err |-> "nil"]

\* db.First(&todo): [todo, err]
First(tbl, todo) ==
  LET hit == KeyedRows(tbl, todo.ID)
  IN IF hit = {} THEN [todo |-> todo, err |-> "RecordNotFound"]
     ELSE LET r == SortById(hit)[1]
          IN [todo |-> [todo EXCEPT !.ID = r.ID, !.Text = r.Text,
                                    !.Done = r.Done, !.UserID = r.UserID],
              err |-> "nil"]

\* db.First(&todo, id): inline primary-key condition, also for id 0
FirstById(tbl, todo, id) ==
  LET hit == {r \in tbl : r.ID = id}
  IN IF hit = {} THEN [todo |-> todo, err |-> "RecordNotFound"]
     ELSE LET r == SortById(hit)[1]
          IN [todo |-> [todo EXCEPT !.ID = r.ID, !.Text = r.Text,
                                    !.Done = r.Done, !.UserID = r.UserID],
              err |-> "nil"]

\* Preload("User"): the belongs-to relation resolved through UserID
PreloadUser(users, todo) ==
  LET hit == {u \in users : u.ID = todo.UserID}
  IN IF hit = {} THEN todo ELSE [todo EXCEPT !.User = CHOOSE u \in hit : TRUE]

\* the columns Update(&todo) writes: the non-blank fields of the struct
UpdateAttrs(todo) ==
  (IF todo.ID # 0 THEN {"ID"} ELSE {}) \cup
  (IF todo.Text # "" THEN {"Text"} ELSE {}) \cup
  (IF todo.Done THEN {"Done"} ELSE {}) \cup
  (IF todo.UserID # 0 THEN {"UserID"} ELSE {})

\* db.Model(&models.Todo{}).Update(&todo): the table after the statement
Update(tbl, todo) ==
  LET attrs == UpdateAttrs(todo)
      hit == KeyedRows(tbl, todo.ID)
      set(r) == [ID |-> IF "ID" \in attrs THEN todo.ID ELSE r.ID,
                 Text |-> IF "Text" \in attrs THEN todo.Text ELSE r.Text,
                 Done |-> IF "Done" \in attrs THEN todo.Done ELSE r.Done,
                 UserID |-> IF "UserID" \in attrs THEN todo.UserID ELSE r.UserID]
  IN IF attrs = {} THEN tbl
     ELSE (tbl \ hit) \cup {set(r) : r \in hit}

\* Delete that issues its statement without the primary-key condition
Delete_NoKey(tbl, todo) == IF KeyedRows(tbl, todo.ID) = {} THEN tbl ELSE {}

\* db.Delete(&todo): the table after the statement
Delete(tbl, todo) == tbl \ KeyedRows(tbl, todo.ID)

\* Create that numbers the row after the rows present instead of the counter
Create_CountRows(tbl, row, autoInc) == [row EXCEPT !.ID = Cardinality(tbl) + 1]

\* db.Create(&v): the row inserted, its blank primary key assigned by AUTO_INCREMENT
Create(tbl, row, autoInc) == [row EXCEPT !.ID = autoInc]

\* ---------------------------------------------------------------- state
NoCall == [op |-> "none", ID |-> 0, Text |-> "", UserID |-> 0, Name |-> "",
           todo |-> ZeroTodo, user |-> ZeroUser, todos |-> <<>>, users |-> <<>>,
           err |-> "nil", dbErr |-> {}]

Idle == [pc |-> "idle", op |-> "none", ID |-> 0, Text |-> "", todo |-> ZeroTodo,
         seen |-> {}]

Init ==
  /\ todoTable = {}
  /\ userTable = {}
  /\ todoAutoInc = 1
  /\ userAutoInc = 1
  /\ last = NoCall
  /\ req = [p \in Requests |-> Idle]
  /\ everTodoIds = {}

Errs(s) == s \ {"nil"}

\* ---------------------------------------------------------------- resolvers
\* f, f1, f2: the storage call fails in the driver (nothing read or written)
CreateTodo(input, f) ==
  LET todo == [ZeroTodo EXCEPT !.Text = input.Text, !.UserID = input.UserID, !.Done = FALSE]
      row == Create(todoTable, TodoRow(todo), todoAutoInc)
  IN /\ todoAutoInc <= MaxTodos
     /\ IF f
        THEN /\ UNCHANGED <<todoTable, todoAutoInc, everTodoIds>>
             /\ last' = [NoCall EXCEPT !.op = "CreateTodo", !.Text = input.Text,
                                       !.UserID = input.UserID, !.todo = todo,
                                       !.err = "nil", !.dbErr = {"DriverError"}]
        ELSE /\ todoTable' = todoTable \cup {row}
             /\ todoAutoInc' = todoAutoInc + 1
             /\ everTodoIds' = everTodoIds \cup {row.ID}
             /\ last' = [NoCall EXCEPT !.op = "CreateTodo", !.Text = input.Text,
                                       !.UserID = input.UserID,
                                       !.todo = [todo EXCEPT !.ID = row.ID],
                                       !.err = "nil"]
     /\ UNCHANGED <<userTable, userAutoInc, req>>

UpdateTodo(input, f1, f2) ==
  LET todo0 == [ZeroTodo EXCEPT !.ID = input.ID]
      got == IF f1 THEN [todo |-> todo0, err |-> "DriverError"] ELSE First(todoTable, todo0)
      todo == [got.todo EXCEPT !.Text = input.Text]
  IN /\ todoTable' = IF f2 THEN todoTable ELSE Update(todoTable, todo)
     /\ last' = [NoCall EXCEPT !.op = "UpdateTodo", !.ID = input.ID, !.Text = input.Text,
                               !.todo = todo, !.err = "nil",
                               !.dbErr = Errs({got.err, IF f2 THEN "DriverError" ELSE "nil"})]
     /\ UNCHANGED <<userTable, todoAutoInc, userAutoInc, req, everTodoIds>>

DeleteTodo(input, f1, f2) ==
  LET todo0 == [ZeroTodo EXCEPT !.ID = input]
      got == IF f1 THEN [todo |-> todo0, err |-> "DriverError"] ELSE First(todoTable, todo0)
      todo == got.todo
  IN /\ todoTable' = IF f2 THEN todoTable ELSE Delete(todoTable, todo)
     /\ last' = [NoCall EXCEPT !.op = "DeleteTodo", !.ID = input,
                               !.todo = todo, !.err = "nil",
                               !.dbErr = Errs({got.err, IF f2 THEN "DriverError" ELSE "nil"})]
     /\ UNCHANGED <<userTable, todoAutoInc, userAutoInc, req, everTodoIds>>

CreateUser(input, f) ==
  LET user == [ZeroUser EXCEPT !.Name = input.Name]
      row == Create(userTable, user, userAutoInc)
  IN /\ userAutoInc <= MaxUsers
     /\ IF f
        THEN /\ UNCHANGED <<userTable, userAutoInc>>
             /\ last' = [NoCall EXCEPT !.op = "CreateUser", !.Name = input.Name,
                                       !.user = user, !.err = "nil",
                                       !.dbErr = {"DriverError"}]
        ELSE /\ userTable' = userTable \cup {row}
             /\ userAutoInc' = userAutoInc + 1
             /\ last' = [NoCall EXCEPT !.op = "CreateUser", !.Name = input.Name,
                                       !.user = row,
                                       !.err = "nil"]
     /\ UNCHANGED <<todoTable, todoAutoInc, req, everTodoIds>>

Todos(f1, f2) ==
  LET rows == IF f1 THEN <<>> ELSE SortById(todoTable)
      todos == [i \in 1..Len(rows) |->
                  LET t == [ZeroTodo EXCEPT !.ID = rows[i].ID, !.Text = rows[i].Text,
                                            !.Done = rows[i].Done, !.UserID = rows[i].UserID]
                  IN IF f2 THEN t ELSE PreloadUser(userTable, t)]
  IN /\ last' = [NoCall EXCEPT !.op = "Todos", !.todos = todos, !.err = "nil",
                               !.dbErr = IF f1 \/ (f2 /\ rows # <<>>) THEN {"DriverError"} ELSE {}]
     /\ UNCHANGED <<todoTable, userTable, todoAutoInc, userAutoInc, req, everTodoIds>>

Users(f) ==
  LET users == IF f THEN <<>> ELSE SortById(userTable)
  IN /\ last' = [NoCall EXCEPT !.op = "Users", !.users = users, !.err = "nil",
                               !.dbErr = IF f THEN {"DriverError"} ELSE {}]
     /\ UNCHANGED <<todoTable, userTable, todoAutoInc, userAutoInc, req, everTodoIds>>

\* Todo written with FirstOrCreate: a miss inserts the blank record
Todo_FirstOrCreate(input, f1, f2) ==
  LET got == FirstById(todoTable, ZeroTodo, input.ID)
      row == Create(todoTable, TodoRow(ZeroTodo), todoAutoInc)
      miss == got.err # "nil" /\ todoAutoInc <= MaxTodos
      todo == IF got.err # "nil" THEN got.todo ELSE PreloadUser(userTable, got.todo)
  IN /\ last' = [NoCall EXCEPT !.op = "Todo", !.ID = input.ID, !.err = "nil",
                               !.todo = IF miss THEN [todo EXCEPT !.ID = row.ID] ELSE todo]
     /\ todoTable' = IF miss THEN todoTable \cup {row} ELSE todoTable
     /\ todoAutoInc' = IF miss THEN todoAutoInc + 1 ELSE todoAutoInc
     /\ everTodoIds' = IF miss THEN everTodoIds \cup {row.ID} ELSE everTodoIds
     /\ UNCHANGED <<userTable, userAutoInc, req>>

Todo(input, f1, f2) ==
  LET got == IF f1 THEN [todo |-> ZeroTodo, err |-> "DriverError"]
             ELSE FirstById(todoTable, ZeroTodo, input.ID)
      todo == IF got.err # "nil" \/ f2 THEN got.todo ELSE PreloadUser(userTable, got.todo)
  IN /\ last' = [NoCall EXCEPT !.op = "Todo", !.ID = input.ID, !.todo = todo, !.err = "nil",
                               !.dbErr = Errs({got.err,
                                               IF got.err = "nil" /\ f2 THEN "DriverError" ELSE "nil"})]
     /\ UNCHANGED <<todoTable, userTable, todoAutoInc, userAutoInc, req, everTodoIds>>

\* ---------------------------------------------------------------- one request at a time
Next ==
  \/ \E text \in Texts, userId \in UserIdInputs : CreateTodo(NewTodo(text, userId), FALSE)
  \/ \E id \in IdInputs, text \in Texts : UpdateTodo(EditTodo(id, text), FALSE, FALSE)
  \/ \E id \in IdInputs : DeleteTodo(id, FALSE, FALSE)
  \/ \E name \in Names : CreateUser(NewUser(name), FALSE)
  \/ Todos(FALSE, FALSE)
  \/ Users(FALSE)
  \/ \E id \in IdInputs : Todo(FetchTodo(id), FALSE, FALSE)

Spec == Init /\ [][Next]_vars

\* ---------------------------------------------------------------- storage calls that may fail
FaultNext ==
  \/ \E text \in Texts, userId \in UserIdInputs, f \in BOOLEAN :
        CreateTodo(NewTodo(text, userId), f)
  \/ \E id \in IdInputs, text \in Texts, f1, f2 \in BOOLEAN :
        UpdateTodo(EditTodo(id, text), f1, f2)
  \/ \E id \in IdInputs, f1, f2 \in BOOLEAN : DeleteTodo(id, f1, f2)
  \/ \E name \in Names, f \in BOOLEAN : CreateUser(NewUser(name), f)
  \/ \E f1, f2 \in BOOLEAN : Todos(f1, f2)
  \/ \E f \in BOOLEAN : Users(f)
  \/ \E id \in IdInputs, f1, f2 \in BOOLEAN : Todo(FetchTodo(id), f1, f2)

FaultSpec == Init /\ [][FaultNext]_vars

\* ---------------------------------------------------------------- concurrent requests
\* UpdateTodo and DeleteTodo issue two statements on the shared handle; a
\* request holds its local todo between them.  seen: the row the load found.
UpdateTodoLoad(p, input) ==
  LET got == First(todoTable, [ZeroTodo EXCEPT !.ID = input.ID])
  IN /\ req[p].pc = "idle"
     /\ req' = [req EXCEPT ![p] = [pc |-> "loaded", op |-> "UpdateTodo", ID |-> input.ID,
                                   Text |-> input.Text,
                                   todo |-> [got.todo EXCEPT !.Text = input.Text],
                                   seen |-> IF got.err = "nil" THEN {TodoRow(got.todo)} ELSE {}]]
     /\ UNCHANGED <<todoTable, userTable, todoAutoInc, userAutoInc, last, everTodoIds>>

UpdateTodoWrite(p) ==
  /\ req[p].pc = "loaded"
  /\ req[p].op = "UpdateTodo"
  /\ todoTable' = Update(todoTable, req[p].todo)
  /\ req' = [req EXCEPT ![p].pc = "done"]
  /\ UNCHANGED <<userTable, todoAutoInc, userAutoInc, last, everTodoIds>>

DeleteTodoLoad(p, input) ==
  LET got == First(todoTable, [ZeroTodo EXCEPT !.ID = input])
  IN /\ req[p].pc = "idle"
     /\ req' = [req EXCEPT ![p] = [pc |-> "loaded", op |-> "DeleteTodo", ID |-> input,
                                   Text |-> "", todo |-> got.todo,
                                   seen |-> IF got.err = "nil" THEN {TodoRow(got.todo)} ELSE {}]]
     /\ UNCHANGED <<todoTable, userTable, todoAutoInc, userAutoInc, last, everTodoIds>>

DeleteTodoWrite(p) ==
  /\ req[p].pc = "loaded"
  /\ req[p].op = "DeleteTodo"
  /\ todoTable' = Delete(todoTable, req[p].todo)
  /\ req' = [req EXCEPT ![p].pc = "done"]
  /\ UNCHANGED <<userTable, todoAutoInc, userAutoInc, last, everTodoIds>>

\* return &todo, nil: the response leaves and the request slot is free again
Return(p) ==
  /\ req[p].pc = "done"
  /\ req' = [req EXCEPT ![p] = Idle]
  /\ UNCHANGED <<todoTable, userTable, todoAutoInc, userAutoInc, last, everTodoIds>>

ConcNext ==
  \/ \E text \in Texts, userId \in UserIdInputs : CreateTodo(NewTodo(text, userId), FALSE)
  \/ \E p \in Requests, id \in IdInputs, text \in Texts : UpdateTodoLoad(p, EditTodo(id, text))
  \/ \E p \in Requests : UpdateTodoWrite(p)
  \/ \E p \in Requests, id \in IdInputs : DeleteTodoLoad(p, id)
  \/ \E p \in Requests : DeleteTodoWrite(p)
  \/ \E p \in Requests : Return(p)

ConcSpec == Init /\ [][ConcNext]_vars

\* ================================================================ claims

\* C1: UpdateTodo(id, text) on a stored Todo, for every text including "",
\* returns the row with the new text and leaves the stored row with that text,
\* done and userID as before, every other row and every user untouched.
C1_UpdateTodoOverwritesText ==
  [][(last'.op = "UpdateTodo" /\ \E r \in todoTable : r.ID = last'.ID) =>
       LET r == CHOOSE x \in todoTable : x.ID = last'.ID
       IN /\ TodoRow(last'.todo) = [r EXCEPT !.Text = last'.Text]
          /\ todoTable' = (todoTable \ {r}) \cup {[r EXCEPT !.Text = last'.Text]}
          /\ userTable' = userTable]_vars

\* C2: DeleteTodo(id) on a stored Todo returns the row as stored before the
\* call and removes that row and no other; an id whose row is gone is never
\* stored again and neither Todo(id) nor Todos returns a row under it.
C2_DeleteTodoRemovesExactlyTheRow ==
  [][/\ (last'.op = "DeleteTodo" /\ \E r \in todoTable : r.ID = last'.ID) =>
          LET r == CHOOSE x \in todoTable : x.ID = last'.ID
          IN /\ TodoRow(last'.todo) = r
             /\ todoTable' = todoTable \ {r}
             /\ userTable' = userTable
     /\ \A id \in everTodoIds :
          (\A r \in todoTable : r.ID # id) =>
             /\ \A r \in todoTable' : r.ID # id
             /\ last'.op = "Todo" /\ last'.ID = id => last'.todo = ZeroTodo
             /\ last'.op = "Todos" => \A i \in 1..Len(last'.todos) : last'.todos[i].ID # id
    ]_vars

\* a stored row was deleted, its content returned, and another row stayed
C2_Witness ==
  /\ last.op = "DeleteTodo"
  /\ last.ID \in everTodoIds
  /\ last.todo.ID = last.ID
  /\ last.todo.Text # ""
  /\ \A r \in todoTable : r.ID # last.ID
  /\ todoTable # {}

\* C3 as stated: Todo, UpdateTodo and DeleteTodo on an id that matches no
\* stored row return a nil error and the zero Todo.
C3_MissReturnsZeroTodo ==
  [][(last'.op \in {"Todo", "UpdateTodo", "DeleteTodo"}
        /\ \A r \in todoTable : r.ID # last'.ID) =>
       (last'.err = "nil" /\ last'.todo = ZeroTodo)]_vars

\* C3 amended: on an id that matches no stored row the three operations return
\* a nil error; Todo returns the zero Todo; UpdateTodo and DeleteTodo return
\* the value they looked up with: the input id (and, for UpdateTodo, the input
\* text) with done false, userID 0 and zero user, or, for id 0 on a non-empty
\* table, the stored row of lowest id (with the input text for UpdateTodo).
C3_MissReturnsLookupValue ==
  [][(last'.op \in {"Todo", "UpdateTodo", "DeleteTodo"}
        /\ \A r \in todoTable : r.ID # last'.ID) =>
       LET lowest == CHOOSE x \in todoTable : \A y \in todoTable : x.ID <= y.ID
           looked == IF last'.ID = 0 /\ todoTable # {}
                     THEN [ZeroTodo EXCEPT !.ID = lowest.ID, !.Text = lowest.Text,
                                           !.Done = lowest.Done, !.UserID = lowest.UserID]
                     ELSE [ZeroTodo EXCEPT !.ID = last'.ID]
       IN /\ last'.err = "nil"
          /\ last'.op = "Todo" => last'.todo = ZeroTodo
          /\ last'.op = "DeleteTodo" => last'.todo = looked
          /\ last'.op = "UpdateTodo" => last'.todo = [looked EXCEPT !.Text = last'.Text]]_vars

\* UpdateTodo ran on an id no row has, with rows stored, and returned that id
C3_Witness ==
  /\ last.op = "UpdateTodo"
  /\ last.ID \notin everTodoIds
  /\ last.ID # 0
  /\ last.todo.ID = last.ID
  /\ last.todo.Text = last.Text
  /\ last.err = "nil"
  /\ todoTable # {}

\* C4: an operation whose storage call failed in the driver returns that error
C4_DriverErrorReturned ==
  "DriverError" \in last.dbErr => last.err = "DriverError"

\* C5: every stored Todo's userID is the id of a stored User
C5_OwnerExists ==
  \A r \in todoTable : \E u \in userTable : u.ID = r.UserID

\* C6: CreateTodo(text, userId) adds exactly one row and returns it: text and
\* userID from the input, done false, an id > 0 that no Todo has or ever had;
\* no other row and no user changes.
C6_CreateTodoAddsOneFreshRow ==
  [][last'.op = "CreateTodo" =>
       LET row == TodoRow(last'.todo)
       IN /\ row \notin todoTable
          /\ todoTable' = todoTable \cup {row}
          /\ row.Text = last'.Text
          /\ row.UserID = last'.UserID
          /\ row.Done = FALSE
          /\ row.ID > 0
          /\ row.ID \notin everTodoIds
          /\ \A r \in todoTable : r.ID # row.ID
          /\ userTable' = userTable]_vars

\* a Todo was created and stored after an earlier one had been deleted
C6_Witness ==
  /\ last.op = "CreateTodo"
  /\ TodoRow(last.todo) \in todoTable
  /\ last.todo.ID > 1
  /\ \E id \in everTodoIds : \A r \in todoTable : r.ID # id

\* C7: Todos returns one entry per stored row, and each entry's user is the
\* stored User whose id is the entry's userID
C7_TodosListsRowsWithOwners ==
  last.op = "Todos" =>
    /\ Len(last.todos) = Cardinality(todoTable)
    /\ {TodoRow(last.todos[i]) : i \in 1..Len(last.todos)} = todoTable
    /\ \A i \in 1..Len(last.todos) :
         \E u \in userTable : u.ID = last.todos[i].UserID /\ last.todos[i].User = u

\* C8: Todos, Users and Todo change no row and no counter, and the same query
\* asked again right after itself returns the same result
C8_QueriesHaveNoSideEffects ==
  [][last'.op \in {"Todos", "Users", "Todo"} =>
       /\ store' = store
       /\ (last.op = last'.op /\ last.ID = last'.ID) =>
             /\ last'.todos = last.todos
             /\ last'.users = last.users
             /\ last'.todo = last.todo]_vars

\* a query missed on a store that holds rows and users
C8_Witness ==
  /\ last.op = "Todo"
  /\ last.ID \notin everTodoIds
  /\ last.todo = ZeroTodo
  /\ todoTable # {}
  /\ userTable # {}

\* C9: when another request changed the row between a request's load and its
\* second statement, that change is lost: UpdateTodo's write-back leaves the
\* row as loaded with the request's text, DeleteTodo removes the row.
C9_InterveningChangeIsLost ==
  [][\A p \in Requests :
       (/\ req[p].pc = "loaded"
        /\ req'[p].pc = "done"
        /\ req[p].seen # {}
        /\ \E r \in todoTable : r.ID = req[p].todo.ID /\ r \notin req[p].seen) =>
          /\ req[p].op = "UpdateTodo" => TodoRow(req[p].todo) \in todoTable'
          /\ req[p].op = "DeleteTodo" => \A r \in todoTable' : r.ID # req[p].todo.ID]_vars

\* C10: UpdateTodo and DeleteTodo on an id that matches no stored row leave
\* both tables as they were
C10_MissChangesNothing ==
  [][(last'.op \in {"UpdateTodo", "DeleteTodo"}
        /\ \A r \in todoTable : r.ID # last'.ID) =>
       (todoTable' = todoTable /\ userTable' = userTable)]_vars

TypeOK ==
  /\ \A r \in todoTable : r.ID \in 1..MaxTodos /\ r.Text \in Texts /\ r.Done \in BOOLEAN
  /\ \A r, s \in todoTable : r.ID = s.ID => r = s
  /\ \A u \in userTable : u.ID \in 1..MaxUsers /\ u.Name \in Names
  /\ todoAutoInc \in 1..(MaxTodos + 1)
  /\ userAutoInc \in 1..(MaxUsers + 1)
====
